---- MODULE Spec2Model ----
(***************************************************************************)
(* stl_to_openscad: STL (ASCII or binary) to OpenSCAD polyhedron.          *)
(*                                                                         *)
(* The input stream and every text the program handles (tokens, the module *)
(* name, the lines written to the output) are sequences of bytes 0..255.   *)
(* A float32 is the record of its IEEE-754 fields [s, e, m]: sign bit,     *)
(* biased 8 bit exponent, 23 bit fraction.                                 *)
(***************************************************************************)
EXTENDS Integers, Sequences, FiniteSets, TLC

(***************************************************************************)
(* Bounds of the checked instances.                                        *)
(***************************************************************************)
\* most facets of a generated well-formed input file
MaxFacets == 2
\* most facets of a file that is damaged (token replaced, stream cut)
MaxDamagedFacets == 1
\* most facets of a mesh handed to postProcess on its own
MaxMesh == 2
\* most facets of a mesh handed to writeOpenScad on its own
MaxWriteFacets == 7
\* most items handed to combineStrings on its own
MaxItems == 13
\* largest group size handed to combineStrings on its own
MaxCount == 6

(***************************************************************************)
(* Bytes and text.                                                         *)
(***************************************************************************)
\* the characters of the program's texts, each run in ASCII order
Digits == "0123456789"
Upper == "ABCDEFGHIJKLMNOPQRSTUVWXYZ"
Lower == "abcdefghijklmnopqrstuvwxyz"

\* the position of the one-character string c in the run
IndexIn(run, c) == CHOOSE i \in 1..Len(run) : SubSeq(run, i, i) = c

InRun(run, c) == \E i \in 1..Len(run) : SubSeq(run, i, i) = c

\* the byte of a one-character string
Ord(c) ==
    CASE InRun(Digits, c) -> 47 + IndexIn(Digits, c)
      [] InRun(Upper, c) -> 64 + IndexIn(Upper, c)
      [] InRun(Lower, c) -> 96 + IndexIn(Lower, c)
      [] c = " " -> 32
      [] c = "%" -> 37
      [] c = "(" -> 40
      [] c = ")" -> 41
      [] c = "+" -> 43
      [] c = "," -> 44
      [] c = "-" -> 45
      [] c = "." -> 46
      [] c = ";" -> 59
      [] c = "=" -> 61
      [] c = "[" -> 91
      [] c = "]" -> 93
      [] c = "_" -> 95
      [] c = "{" -> 123
      [] c = "}" -> 125

\* the bytes of a string literal of the source
S(str) == [i \in 1..Len(str) |-> Ord(SubSeq(str, i, i))]

NL == 10

\* s[0:len(s)-n] for the byte sequence s
DropLast(s, n) == SubSeq(s, 1, Len(s) - n)

\* strings.HasSuffix(s, suffix)
HasSuffix(s, suffix) ==
    /\ Len(s) >= Len(suffix)
    /\ SubSeq(s, Len(s) - Len(suffix) + 1, Len(s)) = suffix

RECURSIVE Itoa(_)
\* fmt.Sprintf("%d", n) for n >= 0
Itoa(n) == IF n < 10 THEN <<48 + n>> ELSE Itoa(n \div 10) \o <<48 + (n % 10)>>

RECURSIVE Pow2(_)
Pow2(n) == IF n = 0 THEN 1 ELSE 2 * Pow2(n - 1)

RECURSIVE Pow10(_)
Pow10(n) == IF n = 0 THEN 1 ELSE 10 * Pow10(n - 1)

(***************************************************************************)
(* float32 (the type of point.x, point.y, point.z): IEEE-754 binary32,     *)
(* round to nearest, ties to even.  A finite f is                          *)
(*    (-1)^f.s * Sig(f) * 2^(Exp(f) - 150).                                *)
(***************************************************************************)
\* 2^23: the implicit leading bit of a normal float32's significand
Hidden == 8388608

F32(s, e, m) == [s |-> s, e |-> e, m |-> m]

PosZero == F32(0, 0, 0)
NegZero == F32(1, 0, 0)
\* math.NaN(), math.Inf(sign) converted to float32
NaN == F32(0, 255, 4194304)
Inf(s) == F32(s, 255, 0)
\* math.MaxFloat32 and -math.MaxFloat32
MaxFloat32 == F32(0, 254, 8388607)
NegMaxFloat32 == F32(1, 254, 8388607)

IsNaN(f) == f.e = 255 /\ f.m # 0
IsInf(f) == f.e = 255 /\ f.m = 0
IsZero(f) == f.e = 0 /\ f.m = 0
IsFinite(f) == f.e < 255

Sig(f) == IF f.e = 0 THEN f.m ELSE Hidden + f.m
Exp(f) == IF f.e = 0 THEN 1 ELSE f.e

\* |a| < |b| for a, b not NaN
MagLess(a, b) == a.e < b.e \/ (a.e = b.e /\ a.m < b.m)

\* a < b of Go for float operands (false when either is NaN; -0 = +0)
Less(a, b) ==
    /\ ~IsNaN(a) /\ ~IsNaN(b)
    /\ ~(IsZero(a) /\ IsZero(b))
    /\ IF a.s # b.s THEN a.s = 1
       ELSE IF a.s = 0 THEN MagLess(a, b) ELSE MagLess(b, a)

\* a == b of Go for float operands
FEq(a, b) ==
    /\ ~IsNaN(a) /\ ~IsNaN(b)
    /\ (a = b \/ (IsZero(a) /\ IsZero(b)))

\* -f
Neg(f) == F32(1 - f.s, f.e, f.m)

\* n shifted right by d bits, every bit shifted out or-ed into the lowest
\* bit kept (the sticky bit); n < 2^27
ShiftRightSticky(n, d) ==
    IF d = 0 THEN n
    ELSE IF d >= 27 THEN (IF n = 0 THEN 0 ELSE 1)
    ELSE LET q == n \div Pow2(d)
             lost == n % Pow2(d)
         IN IF lost # 0 /\ q % 2 = 0 THEN q + 1 ELSE q

RECURSIVE Normalize(_, _)
\* r (a significand with 3 extra low bits) at exponent e, shifted until its
\* leading bit is bit 26 or the exponent is the smallest one
Normalize(r, e) ==
    IF r >= 2 * 8 * Hidden THEN Normalize(ShiftRightSticky(r, 1), e + 1)
    ELSE IF r < 8 * Hidden /\ e > 1 THEN Normalize(2 * r, e - 1)
    ELSE [r |-> r, e |-> e]

\* the float32 of sign s nearest to r/8 * 2^(e - 150); r is normalized
RoundPack(s, r, e) ==
    LET q == r \div 8
        rest == r % 8
        up == rest > 4 \/ (rest = 4 /\ q % 2 = 1)
        q1 == IF up THEN q + 1 ELSE q
        q2 == IF q1 = 2 * Hidden THEN Hidden ELSE q1
        e2 == IF q1 = 2 * Hidden THEN e + 1 ELSE e
    IN IF q2 < Hidden THEN F32(s, 0, q2)
       ELSE IF e2 >= 255 THEN Inf(s)
       ELSE F32(s, e2, q2 - Hidden)

\* a + b in float32
Add(a, b) ==
    IF IsNaN(a) \/ IsNaN(b) THEN NaN
    ELSE IF IsInf(a) THEN (IF IsInf(b) /\ a.s # b.s THEN NaN ELSE a)
    ELSE IF IsInf(b) THEN b
    ELSE IF IsZero(a) /\ IsZero(b) THEN (IF a.s = b.s THEN a ELSE PosZero)
    ELSE IF IsZero(a) THEN b
    ELSE IF IsZero(b) THEN a
    ELSE LET big == IF MagLess(a, b) THEN b ELSE a
             small == IF MagLess(a, b) THEN a ELSE b
             d == Exp(big) - Exp(small)
             bs == 8 * Sig(big)
             ss == ShiftRightSticky(8 * Sig(small), d)
             r == IF a.s = b.s THEN bs + ss ELSE bs - ss
             n == Normalize(r, Exp(big))
         IN IF r = 0 THEN PosZero ELSE RoundPack(big.s, n.r, n.e)

\* a - b in float32
Sub(a, b) == Add(a, Neg(b))

\* f / 2 in float32
Half(f) ==
    IF f.e = 255 \/ IsZero(f) THEN f
    ELSE IF f.e >= 2 THEN F32(f.s, f.e - 1, f.m)
    ELSE LET q == Sig(f) \div 2
             q1 == IF Sig(f) % 2 = 1 /\ q % 2 = 1 THEN q + 1 ELSE q
         IN IF q1 >= Hidden THEN F32(f.s, 1, q1 - Hidden) ELSE F32(f.s, 0, q1)

\* float32(math.Min(float64(x), float64(y)))
Min(x, y) ==
    IF (IsInf(x) /\ x.s = 1) \/ (IsInf(y) /\ y.s = 1) THEN Inf(1)
    ELSE IF IsNaN(x) \/ IsNaN(y) THEN NaN
    ELSE IF IsZero(x) /\ IsZero(y) THEN (IF x.s = 1 THEN x ELSE y)
    ELSE IF Less(x, y) THEN x ELSE y

\* float32(math.Max(float64(x), float64(y)))
Max(x, y) ==
    IF (IsInf(x) /\ x.s = 0) \/ (IsInf(y) /\ y.s = 0) THEN Inf(0)
    ELSE IF IsNaN(x) \/ IsNaN(y) THEN NaN
    ELSE IF IsZero(x) /\ IsZero(y) THEN (IF x.s = 1 THEN y ELSE x)
    ELSE IF Less(y, x) THEN x ELSE y

(***************************************************************************)
(* strconv.ParseFloat(s, 32) and fmt.Sprintf("%.10f", val), the two        *)
(* conversions between text and float32.  Both are computed exactly, in    *)
(* integer arithmetic: ParseFloat for decimal tokens whose digits and      *)
(* power of ten stay below 2^30, Sprintf for values below 2^31 that are a  *)
(* multiple of 2^-27.  TLC stops with an overflow on anything beyond that; *)
(* no value is ever approximated.                                          *)
(***************************************************************************)
IsDigit(c) == 48 <= c /\ c <= 57

\* the lower-case form of an ASCII letter
LowerByte(c) == IF 65 <= c /\ c <= 90 THEN c + 32 ELSE c

LowerSeq(s) == [i \in 1..Len(s) |-> LowerByte(s[i])]

RECURSIVE DigitRun(_, _)
\* the number of consecutive digits of s from position i on
DigitRun(s, i) ==
    IF i <= Len(s) /\ IsDigit(s[i]) THEN 1 + DigitRun(s, i + 1) ELSE 0

RECURSIVE DigitsValue(_)
\* the number written by the digits ds
DigitsValue(ds) ==
    IF ds = <<>> THEN 0
    ELSE 10 * DigitsValue(DropLast(ds, 1)) + (ds[Len(ds)] - 48)

\* an underscore among the digits or a hexadecimal mantissa: accepted or
\* rejected depending on the Go release, and not part of this model
OutsideModel == CHOOSE v \in {} : TRUE

RECURSIVE BitLen(_)
BitLen(n) == IF n = 0 THEN 0 ELSE 1 + BitLen(n \div 2)

RECURSIVE ScaleUp(_, _, _, _)
\* q + r/d doubled until q has 26 bits; t counts the doublings
ScaleUp(q, r, d, t) ==
    IF q >= 4 * Hidden THEN [q |-> q, r |-> r, t |-> t]
    ELSE IF 2 * r >= d THEN ScaleUp(2 * q + 1, 2 * r - d, d, t + 1)
    ELSE ScaleUp(2 * q, 2 * r, d, t + 1)

\* q + r/d halved sh times, what is shifted out kept as a remainder
ScaleDown(q, r, sh) ==
    [q |-> q \div Pow2(sh), r |-> IF q % Pow2(sh) # 0 THEN 1 ELSE r, t |-> 0 - sh]

\* the float32 of sign s nearest to n/d, for n > 0 and d > 0
FromRatio(s, n, d) ==
    LET Pack(sc) ==
            IF 152 - sc.t < 1 THEN OutsideModel
            ELSE RoundPack(s, 2 * sc.q + (IF sc.r # 0 THEN 1 ELSE 0), 152 - sc.t)
    IN IF BitLen(n \div d) > 26
       THEN Pack(ScaleDown(n \div d, n % d, BitLen(n \div d) - 26))
       ELSE Pack(ScaleUp(n \div d, n % d, d, 0))

strInf == S("inf")
strInfinity == S("infinity")
strNan == S("nan")

\* readFloat of strconv, the optional sign: the sign and the index after it
ReadSign(tok) ==
    IF Len(tok) >= 1 /\ tok[1] \in {43, 45}
    THEN [i |-> 2, neg |-> tok[1] = 45, signed |-> TRUE]
    ELSE [i |-> 1, neg |-> FALSE, signed |-> FALSE]

\* readFloat of strconv, the mantissa from index st.i on: its digits, how
\* many of them follow the point, and the index after it
ReadMantissa(tok, st) ==
    LET intLen == DigitRun(tok, st.i)
        dot == st.i + intLen <= Len(tok) /\ tok[st.i + intLen] = 46
        fracLen == IF dot THEN DigitRun(tok, st.i + intLen + 1) ELSE 0
    IN [neg |-> st.neg,
        digits |-> SubSeq(tok, st.i, st.i + intLen - 1)
                     \o SubSeq(tok, st.i + intLen + 1, st.i + intLen + fracLen),
        nfrac |-> fracLen,
        i |-> st.i + intLen + (IF dot THEN 1 + fracLen ELSE 0),
        foreign |-> \/ /\ st.i + 2 <= Len(tok) /\ tok[st.i] = 48
                       /\ LowerByte(tok[st.i + 1]) = 120
                    \/ /\ intLen + fracLen > 0
                       /\ \E p \in 1..Len(tok) : tok[p] = 95]

\* readFloat of strconv, the optional exponent from index m.i on, and
\* whether the token ends where the number does
ReadExponent(tok, m) ==
    LET hasExp == m.i <= Len(tok) /\ LowerByte(tok[m.i]) = 101
        esigned == hasExp /\ m.i + 1 <= Len(tok) /\ tok[m.i + 1] \in {43, 45}
        e0 == IF esigned THEN m.i + 2 ELSE m.i + 1
        expLen == IF hasExp THEN DigitRun(tok, e0) ELSE 0
        ev == DigitsValue(SubSeq(tok, e0, e0 + expLen - 1))
    IN [neg |-> m.neg, digits |-> m.digits, nfrac |-> m.nfrac,
        foreign |-> m.foreign,
        exp |-> IF esigned /\ tok[m.i + 1] = 45 THEN 0 - ev ELSE ev,
        ok |-> /\ m.digits # <<>>
               /\ hasExp => expLen > 0
               /\ (IF hasExp THEN e0 + expLen ELSE m.i) = Len(tok) + 1]

\* the float32 nearest to the number read
Nearest(s, n, k) ==
    IF n = 0 THEN F32(s, 0, 0)
    ELSE IF k >= 0 THEN FromRatio(s, n * Pow10(k), 1)
    ELSE FromRatio(s, n, Pow10(0 - k))

\* the result for a well-formed number: out of range is an error
InRange(val) == [ok |-> ~IsInf(val), val |-> val]

\* the value and the error of strconv.ParseFloat(tok, 32)
ParseFloat(tok) ==
    LET Number(p) ==
            IF p.foreign THEN OutsideModel
            ELSE IF ~p.ok THEN [ok |-> FALSE, val |-> PosZero]
            ELSE InRange(Nearest(IF p.neg THEN 1 ELSE 0, DigitsValue(p.digits),
                                 p.exp - p.nfrac))
        Classify(st, word) ==
            IF word = strInf \/ word = strInfinity
            THEN [ok |-> TRUE, val |-> Inf(IF st.neg THEN 1 ELSE 0)]
            ELSE IF ~st.signed /\ word = strNan THEN [ok |-> TRUE, val |-> NaN]
            ELSE Number(ReadExponent(tok, ReadMantissa(tok, st)))
        Signed(st) == Classify(st, LowerSeq(SubSeq(tok, st.i, Len(tok))))
    IN Signed(ReadSign(tok))

RECURSIVE Reduce(_, _)
\* sig / 2^k in lowest terms
Reduce(sig, k) ==
    IF sig = 0 THEN [sig |-> 0, k |-> 0]
    ELSE IF k > 0 /\ sig % 2 = 0 THEN Reduce(sig \div 2, k - 1)
    ELSE [sig |-> sig, k |-> k]

RECURSIVE FracDigits(_, _, _)
\* the first n decimal digits of r/d and what is left of r after them
FracDigits(r, d, n) ==
    IF n = 0 THEN [ds |-> <<>>, r |-> r]
    ELSE LET rest == FracDigits((10 * r) % d, d, n - 1)
         IN [ds |-> <<48 + ((10 * r) \div d)>> \o rest.ds, r |-> rest.r]

RECURSIVE Increment(_)
\* the digits ds plus one in the last place; a leading 1 is added on carry
Increment(ds) ==
    IF ds = <<>> THEN <<49>>
    ELSE IF ds[Len(ds)] < 57 THEN DropLast(ds, 1) \o <<ds[Len(ds)] + 1>>
    ELSE Increment(DropLast(ds, 1)) \o <<48>>

\* the decimal digits of |val| cut after the 10th decimal, the remainder r
\* of the part cut off and its denominator d; val is finite
Expand(val) ==
    LET x == Exp(val) - 150
        red == Reduce(Sig(val), IF x < 0 THEN 0 - x ELSE 0)
        Digits10(whole, fr, d) == [all |-> Itoa(whole) \o fr.ds, r |-> fr.r, d |-> d]
    IN IF x >= 0
       THEN Digits10(Sig(val) * Pow2(x), FracDigits(0, 1, 10), 1)
       ELSE Digits10(red.sig \div Pow2(red.k),
                     FracDigits(red.sig % Pow2(red.k), Pow2(red.k), 10),
                     Pow2(red.k))

\* the digits rounded to nearest, ties to the even digit
Rounded(ex) ==
    IF \/ 2 * ex.r > ex.d
       \/ (2 * ex.r = ex.d /\ (ex.all[Len(ex.all)] - 48) % 2 = 1)
    THEN Increment(ex.all)
    ELSE ex.all

strDot == S(".")
strZero == S("0")

\* the sign, the digits and the point before the last 10 of them
Layout(s, ds) ==
    (IF s = 1 THEN S("-") ELSE <<>>)
      \o DropLast(ds, 10) \o strDot \o SubSeq(ds, Len(ds) - 9, Len(ds))

\* fmt.Sprintf("%.10f", val)
Sprintf10f(val) ==
    IF IsNaN(val) THEN S("NaN")
    ELSE IF IsInf(val) THEN (IF val.s = 1 THEN S("-Inf") ELSE S("+Inf"))
    ELSE Layout(val.s, Rounded(Expand(val)))

(***************************************************************************)
(* The serializer's pure functions.                                        *)
(***************************************************************************)
RECURSIVE StripZeros(_)
\* for strings.HasSuffix(s, "0") { s = s[0 : len(s)-1] }
StripZeros(s) == IF HasSuffix(s, strZero) THEN StripZeros(DropLast(s, 1)) ELSE s

\* if strings.HasSuffix(s, ".") { s = s[0 : len(s)-1] }
StripDot(s) == IF HasSuffix(s, strDot) THEN DropLast(s, 1) ELSE s

ftos(val) == StripDot(StripZeros(Sprintf10f(val)))

pointToOpenScad(pt) ==
    S("[") \o ftos(pt.x) \o S(",") \o ftos(pt.y) \o S(",") \o ftos(pt.z) \o S("]")

RECURSIVE Join(_, _)
\* strings.Join(elems, sep)
Join(elems, sep) ==
    IF elems = <<>> THEN <<>>
    ELSE IF Len(elems) = 1 THEN elems[1]
    ELSE elems[1] \o sep \o Join(Tail(elems), sep)

\* the indices of a face counted from start + 1
facesToOpenScadFromOne(start, len) ==
    S("[") \o Join([k \in 1..len |-> Itoa(start + k)], S(",")) \o S("]")

facesToOpenScad(start, len) ==
    S("[") \o Join([i \in 1..len |-> Itoa(start + i - 1)], S(",")) \o S("]")

RECURSIVE CombineLoop(_, _, _, _, _, _)
\* the loop of combineStrings from index idx (from 0) on, with the lines
\* finished so far, the line being filled and the number i of parts in it
CombineLoop(strings, count, separator, idx, acc, i) ==
    IF idx >= Len(strings) THEN acc.lines \o <<acc.curLine>>
    ELSE LET part == IF idx < Len(strings) - 1
                     THEN strings[idx + 1] \o separator
                     ELSE strings[idx + 1]
         IN IF i < count
            THEN CombineLoop(strings, count, separator, idx + 1,
                             [lines |-> acc.lines, curLine |-> acc.curLine \o part],
                             i + 1)
            ELSE CombineLoop(strings, count, separator, idx + 1,
                             [lines |-> acc.lines \o <<acc.curLine>>, curLine |-> part],
                             1)

\* the loop entered with one part counted already
combineStringsShort(strings, count, separator) ==
    CombineLoop(strings, count, separator, 0, [lines |-> <<>>, curLine |-> <<>>], 1)

combineStrings(strings, count, separator) ==
    CombineLoop(strings, count, separator, 0, [lines |-> <<>>, curLine |-> <<>>], 0)

(***************************************************************************)
(* The ASCII decoder: a bufio.Scanner splitting the stream into words.     *)
(* A position is the number of bytes of the stream consumed so far.        *)
(***************************************************************************)
\* the width of the white space character encoded at data[i], 0 if none is:
\* bufio.ScanWords decodes UTF-8 and takes the Unicode spaces as separators
SpaceWidth(data, i) ==
    LET b(k) == IF i + k <= Len(data) THEN data[i + k] ELSE 0 - 1
    IN IF b(0) = 32 \/ (9 <= b(0) /\ b(0) <= 13) THEN 1
       ELSE IF b(0) = 194 /\ b(1) \in {133, 160} THEN 2
       ELSE IF b(0) = 225 /\ b(1) = 154 /\ b(2) = 128 THEN 3
       ELSE IF b(0) = 226 /\ b(1) = 128
               /\ ((128 <= b(2) /\ b(2) <= 138) \/ b(2) \in {168, 169, 175})
            THEN 3
       ELSE IF b(0) = 226 /\ b(1) = 129 /\ b(2) = 159 THEN 3
       ELSE IF b(0) = 227 /\ b(1) = 128 /\ b(2) = 128 THEN 3
       ELSE 0

RECURSIVE SkipSpaces(_, _)
\* the first position from i on that holds no white space
SkipSpaces(data, i) ==
    IF i <= Len(data) /\ SpaceWidth(data, i) > 0
    THEN SkipSpaces(data, i + SpaceWidth(data, i))
    ELSE i

RECURSIVE WordEnd(_, _)
\* the first position from i on that holds white space or lies past the end
WordEnd(data, i) ==
    IF i <= Len(data) /\ SpaceWidth(data, i) = 0 THEN WordEnd(data, i + 1) ELSE i

\* scanner.Scan() followed by scanner.Text(): the next word and the position
\* after it; the empty text once the stream is exhausted
Scan(data, pos) ==
    LET start == SkipSpaces(data, pos + 1)
        end == WordEnd(data, start)
        after == IF end <= Len(data) THEN end - 1 + SpaceWidth(data, end)
                 ELSE Len(data)
    IN [tok |-> SubSeq(data, start, end - 1), pos |-> after]

kwSolid == S("solid")
kwFacet == S("facet")
kwNormal == S("normal")
kwOuter == S("outer")
kwLoop == S("loop")
kwVertex == S("vertex")
kwEndloop == S("endloop")
kwEndfacet == S("endfacet")
kwEndsolid == S("endsolid")

\* a token read and not compared
expectAny(data, rd, expected) ==
    IF ~rd.ok THEN rd
    ELSE LET sc == Scan(data, rd.pos)
         IN [ok |-> TRUE, pos |-> sc.pos, vals |-> rd.vals]

\* A reading in progress is [ok, pos, vals]: ok turns FALSE where log.Fatalf
\* ends the process, and nothing is read after that; vals collects the
\* floats read.
expect(data, rd, expected) ==
    IF ~rd.ok THEN rd
    ELSE LET sc == Scan(data, rd.pos)
         IN [ok |-> sc.tok = expected, pos |-> sc.pos, vals |-> rd.vals]

readFloat(data, rd) ==
    LET Store(sc, pf) ==
            IF pf.ok
            THEN [ok |-> TRUE, pos |-> sc.pos, vals |-> Append(rd.vals, pf.val)]
            ELSE [ok |-> FALSE, pos |-> sc.pos, vals |-> rd.vals]
        Parse(sc) == Store(sc, ParseFloat(sc.tok))
    IN IF ~rd.ok THEN rd ELSE Parse(Scan(data, rd.pos))

readPoint(data, rd) == readFloat(data, readFloat(data, readFloat(data, rd)))

\* the three floats of a vertex stored as z, y, x
PointAtReversed(vals, i) == [x |-> vals[i + 2], y |-> vals[i + 1], z |-> vals[i]]

\* the point of the three floats of vals from index i on
PointAt(vals, i) == [x |-> vals[i], y |-> vals[i + 1], z |-> vals[i + 2]]

\* readFacet from position pos, "facet" already read: whether it returns, the
\* polygon it returns and the position it leaves the scanner at
readFacet(data, pos) ==
    LET r0 == [ok |-> TRUE, pos |-> pos, vals |-> <<>>]
        r1 == readPoint(data, expect(data, r0, kwNormal))
        r2 == expect(data, expect(data, r1, kwOuter), kwLoop)
        r3 == readPoint(data, expect(data, r2, kwVertex))
        r4 == readPoint(data, expect(data, r3, kwVertex))
        r5 == readPoint(data, expect(data, r4, kwVertex))
        r6 == expect(data, expect(data, r5, kwEndloop), kwEndfacet)
        Polygon(r) ==
            [ok |-> r.ok, pos |-> r.pos,
             poly |-> IF r.ok
                      THEN [vertices |-> <<PointAt(r.vals, 4), PointAt(r.vals, 7),
                                           PointAt(r.vals, 10)>>]
                      ELSE [vertices |-> <<>>]]
    IN Polygon(r6)

(***************************************************************************)
(* The binary decoder: fixed-width little-endian reads of the bufio.Reader.*)
(***************************************************************************)
\* the position after r.Discard(n): what is there is skipped, the error of a
\* short stream is dropped
Discard(data, pos, n) == IF pos + n <= Len(data) THEN pos + n ELSE Len(data)

\* binary.Read(r, binary.LittleEndian, &v) for a 4 byte v: on a short stream
\* v keeps its zero value, what is left is consumed, the error is dropped
Read4(data, pos) ==
    IF pos + 4 <= Len(data)
    THEN [full |-> TRUE, b |-> SubSeq(data, pos + 1, pos + 4), pos |-> pos + 4]
    ELSE [full |-> FALSE, b |-> <<0, 0, 0, 0>>, pos |-> Len(data)]

\* the uint32 of 4 little-endian bytes
Uint32(b) == b[1] + 256 * b[2] + 65536 * b[3] + 16777216 * b[4]

\* the float32 of 4 little-endian bytes
Float32frombits(b) ==
    F32(b[4] \div 128, 2 * (b[4] % 128) + b[3] \div 128,
        65536 * (b[3] % 128) + 256 * b[2] + b[1])

readPointBinary(data, pos) ==
    LET Z(rx, ry, rz) ==
            [p |-> [x |-> Float32frombits(rx.b), y |-> Float32frombits(ry.b),
                    z |-> Float32frombits(rz.b)],
             pos |-> rz.pos]
        Y(rx, ry) == Z(rx, ry, Read4(data, ry.pos))
        X(rx) == Y(rx, Read4(data, rx.pos))
    IN X(Read4(data, pos))

(***************************************************************************)
(* The centering transform.                                                *)
(***************************************************************************)
\* point.add
add(p, q) == [x |-> Add(p.x, q.x), y |-> Add(p.y, q.y), z |-> Add(p.z, q.z)]

\* every vertex of the facet list, in order
RECURSIVE AllVertices(_)
AllVertices(polys) ==
    IF polys = <<>> THEN <<>> ELSE polys[1].vertices \o AllVertices(Tail(polys))

RECURSIVE BoxLoop(_, _)
\* the loops of boundingBox over the vertices vs, from the box so far
BoxLoop(vs, box) ==
    IF vs = <<>> THEN box
    ELSE LET v == vs[1]
         IN BoxLoop(Tail(vs),
                [min |-> [x |-> Min(box.min.x, v.x), y |-> Min(box.min.y, v.y),
                          z |-> Min(box.min.z, v.z)],
                 max |-> [x |-> Max(box.max.x, v.x), y |-> Max(box.max.y, v.y),
                          z |-> Max(box.max.z, v.z)]])

boundingBox(polys) ==
    BoxLoop(AllVertices(polys),
            [min |-> [x |-> MaxFloat32, y |-> MaxFloat32, z |-> MaxFloat32],
             max |-> [x |-> NegMaxFloat32, y |-> NegMaxFloat32, z |-> NegMaxFloat32]])

\* the translation with the extent of the box not halved
DeltaWhole(box) ==
    [x |-> Sub(Neg(box.min.x), Sub(box.max.x, box.min.x)),
     y |-> Sub(Neg(box.min.y), Sub(box.max.y, box.min.y)),
     z |-> Neg(box.min.z)]

\* the translation postProcess computes from the bounding box
Delta(box) ==
    [x |-> Sub(Neg(box.min.x), Half(Sub(box.max.x, box.min.x))),
     y |-> Sub(Neg(box.min.y), Half(Sub(box.max.y, box.min.y))),
     z |-> Neg(box.min.z)]

\* the facet list centred whatever *centerFlag holds
postProcessAlways(polys, center) ==
    LET delta == Delta(boundingBox(polys))
    IN [k \in 1..Len(polys) |->
           [vertices |-> [j \in 1..Len(polys[k].vertices) |->
                             add(polys[k].vertices[j], delta)]]]

\* the facet list postProcess leaves, for the value center of *centerFlag
postProcess(polys, center) ==
    IF ~center THEN polys
    ELSE LET delta == Delta(boundingBox(polys))
         IN [i \in 1..Len(polys) |->
                [vertices |-> [j \in 1..Len(polys[i].vertices) |->
                                  add(polys[i].vertices[j], delta)]]]

(***************************************************************************)
(* writeOpenScad.                                                          *)
(***************************************************************************)
RECURSIVE ListsLoop(_, _, _)
\* the first loop of writeOpenScad over the facets polys, from the lists
\* [points, faces] built so far and the running offset ofs
ListsLoop(polys, lists, ofs) ==
    IF polys = <<>> THEN lists
    ELSE LET p == polys[1]
         IN ListsLoop(Tail(polys),
                [points |-> lists.points
                              \o [j \in 1..Len(p.vertices) |->
                                     pointToOpenScad(p.vertices[j])],
                 faces |-> Append(lists.faces,
                                  facesToOpenScad(ofs, Len(p.vertices)))],
                ofs + Len(p.vertices))

RECURSIVE Lines(_)
\* fmt.Fprintf(w, "      %s\n", l) for every line l
Lines(ls) ==
    IF ls = <<>> THEN <<>>
    ELSE S("      ") \o ls[1] \o <<NL>> \o Lines(Tail(ls))

sepComma == S(", ")

\* everything writeOpenScad prints for the two lists and the module name
Script(name, pts, fcs) ==
    S("module ") \o name \o S("() {") \o <<NL>>
      \o S("  polyhedron(") \o <<NL>>
      \o S("    points=[") \o <<NL>>
      \o Lines(combineStrings(pts, 3, sepComma))
      \o S("    ],") \o <<NL>>
      \o S("    faces=[") \o <<NL>>
      \o Lines(combineStrings(fcs, 6, sepComma))
      \o S("    ]") \o <<NL>>
      \o S("  );") \o <<NL>>
      \o S("}") \o <<NL>>
      \o name \o S("();") \o <<NL>>

(***************************************************************************)
(* The input streams the runs are checked on.                              *)
(***************************************************************************)
RECURSIVE Flatten(_)
Flatten(ss) == IF ss = <<>> THEN <<>> ELSE ss[1] \o Flatten(Tail(ss))

RECURSIVE SeqsOf(_, _)
\* the sequences of exactly n elements of set
SeqsOf(set, n) ==
    IF n = 0 THEN {<<>>}
    ELSE {Append(s, x) : s \in SeqsOf(set, n - 1), x \in set}

SeqsUpTo(set, n) == UNION {SeqsOf(set, k) : k \in 0..n}

\* the tokens of one facet block with the normal nm and the coordinates cs
FacetTokens(nm, cs) ==
    <<kwFacet, kwNormal>> \o nm \o <<kwOuter, kwLoop>>
      \o <<kwVertex>> \o SubSeq(cs, 1, 3)
      \o <<kwVertex>> \o SubSeq(cs, 4, 6)
      \o <<kwVertex>> \o SubSeq(cs, 7, 9)
      \o <<kwEndloop, kwEndfacet>>

AsciiFacetA ==
    FacetTokens(<<S("0"), S("0"), S("1")>>,
                <<S("0"), S("0"), S("0"), S("1"), S("0"), S("0"),
                  S("0"), S("1"), S("0")>>)

AsciiFacetB ==
    FacetTokens(<<S("0"), S("-1"), S("0")>>,
                <<S("-0"), S("2.5"), S("1e1"), S("-3"), S("0.1"), S("7"),
                  S(".5"), S("4."), S("+100")>>)

AsciiFacets == {AsciiFacetA, AsciiFacetB}

\* the tokens of an ASCII STL file
AsciiTokens(name, facets) ==
    <<kwSolid, name>> \o Flatten(facets) \o <<kwEndsolid, name>>

\* the tokens written one space apart, the file ended by a line break
AsciiText(toks) == Join(toks, <<32>>) \o <<NL>>

AsciiFiles(n) ==
    {AsciiTokens(S("cube"), fs) : fs \in SeqsUpTo(AsciiFacets, n)}

\* the files that are damaged: up to n facets, all alike
AsciiBases(n) ==
    {AsciiTokens(S("cube"), [k \in 1..m |-> AsciiFacetB]) : m \in 0..n}

\* what takes the place of a token of a damaged file
BadTokens == {S("bogus"), kwEndsolid, S("1"), S("nan")}

\* the files with one token but the first replaced
Replaced(n) ==
    UNION {{AsciiText([T EXCEPT ![k] = b]) : k \in 2..Len(T), b \in BadTokens}
             : T \in AsciiBases(n)}

\* the proper prefixes of the streams of a set
Cuts(streams) ==
    UNION {{SubSeq(d, 1, k) : k \in 0..(Len(d) - 1)} : d \in streams}

\* streams told apart by their first bytes and by their white space alone
OddStreams ==
    { S("solid"), S("Solid cube endsolid cube"), S("solid_cube endsolid"),
      kwSolid \o <<NL>> \o S("cube") \o <<NL>> \o kwEndsolid,
      S("solid ") \o <<9>> \o S("cube") \o <<13, NL, 194, 160>> \o kwEndsolid
        \o <<226, 128, 168>> \o S("cube") \o <<11, 12>>,
      S("solid cube") \o <<194>> \o S("x endsolid") }

\* the 4 little-endian bytes of the uint32 n < 2^31
PutUint32(n) ==
    <<n % 256, (n \div 256) % 256, (n \div 65536) % 256, n \div 16777216>>

\* the 4 little-endian bytes of the float32 f
PutFloat32(f) ==
    <<f.m % 256, (f.m \div 256) % 256, 128 * (f.e % 2) + f.m \div 65536,
      128 * f.s + f.e \div 2>>

\* a 50 byte record: the normal, three vertices, the attribute bytes
Record(nm, cs, attr) ==
    Flatten([k \in 1..3 |-> PutFloat32(nm[k])])
      \o Flatten([k \in 1..9 |-> PutFloat32(cs[k])]) \o attr

One == F32(0, 127, 0)

BinaryFacetA ==
    Record(<<PosZero, PosZero, One>>,
           <<PosZero, PosZero, PosZero, One, PosZero, PosZero,
             PosZero, One, PosZero>>, <<0, 0>>)

BinaryFacetB ==
    Record(<<PosZero, F32(1, 127, 0), PosZero>>,
           <<NegZero, F32(0, 128, 2097152), F32(0, 130, 2097152),
             F32(1, 128, 4194304), F32(0, 123, 5033165), F32(0, 129, 6291456),
             F32(0, 126, 0), F32(0, 129, 0), F32(0, 133, 4718592)>>,
           <<7, 9>>)

BinaryFacets == {BinaryFacetA, BinaryFacetB}

\* 80 byte headers: empty, text that starts with "solid" and no space, text
\* that starts with "solid " as the header of an ASCII file does
Headers ==
    { [k \in 1..80 |-> 0],
      S("solidworks") \o [k \in 1..70 |-> 0],
      S("solid binary") \o [k \in 1..68 |-> 32] }

BinaryFile(header, records) ==
    header \o PutUint32(Len(records)) \o Flatten(records)

BinaryFiles(n) ==
    {BinaryFile(h, rs) : h \in Headers, rs \in SeqsUpTo(BinaryFacets, n)}

\* the files that are cut short: the empty header, up to n records, all alike
BinaryBases(n) ==
    {BinaryFile([k \in 1..80 |-> 0], [k \in 1..m |-> BinaryFacetB]) : m \in 0..n}

\* a file that declares fewer records than it holds
Overlong ==
    {[k \in 1..80 |-> 0] \o PutUint32(0) \o r : r \in BinaryFacets}

Inputs ==
    {AsciiText(T) : T \in AsciiFiles(MaxFacets)}
      \cup Replaced(MaxDamagedFacets)
      \cup Cuts({AsciiText(T) : T \in AsciiBases(MaxDamagedFacets)})
      \cup OddStreams
      \cup BinaryFiles(MaxFacets)
      \cup Cuts(BinaryBases(MaxDamagedFacets))
      \cup Overlong

(***************************************************************************)
(* The state of a run.                                                     *)
(***************************************************************************)
VARIABLES
    input,           \* the bytes of the input stream
    offset,             \* how many of them the reader has consumed
    moduleNameFlag,  \* *moduleNameFlag
    centerFlag,      \* *centerFlag
    moduleName,      \* the global moduleName
    pc,              \* where the run is
    text,            \* scanner.Text() in readAscii
    numTriangles,    \* numTriangles in readBinary
    tri,               \* the loop counter of readBinary
    polygons,        \* the facet list
    points,          \* points in writeOpenScad
    faces,           \* faces in writeOpenScad
    output,          \* the bytes written to the output stream
    arg,             \* the argument of a function applied on its own
    res              \* its result

vars == <<input, offset, moduleNameFlag, centerFlag, moduleName, pc, text,
          numTriangles, tri, polygons, points, faces, output, arg, res>>

\* the configuration and the stream, which no step changes
env == <<input, moduleNameFlag, centerFlag>>

\* the locals of functions that have not been entered
Fresh ==
    /\ offset = 0
    /\ text = <<>>
    /\ numTriangles = 0
    /\ tri = 0
    /\ polygons = <<>>
    /\ points = <<>>
    /\ faces = <<>>
    /\ output = <<>>

NoCall == arg = <<>> /\ res = <<>>

\* init(): moduleName = *moduleNameFlag
Init ==
    /\ input \in Inputs
    /\ moduleNameFlag \in {<<>>, S("part")}
    /\ centerFlag \in BOOLEAN
    /\ moduleName = moduleNameFlag
    /\ pc = "main"
    /\ Fresh
    /\ NoCall

\* input.Peek(6): the first bytes of the stream, fewer if it is shorter;
\* nothing is consumed
Peek(data, n) == SubSeq(data, 1, IF Len(data) < n THEN Len(data) ELSE n)

\* the comparison of the peeked bytes made without regard to case
IsAsciiFold(buf) == LowerSeq(buf) = S("solid ")

\* string(buf) == "solid "
IsAscii(buf) == buf = S("solid ")

\* the name declared by the file stored whatever the flag holds
solidNameAlways(current, shapeName) == shapeName

\* readAscii: if moduleName == "" { moduleName = shapeName }
solidName(current, shapeName) == IF current = <<>> THEN shapeName ELSE current

\* main: if moduleName == "" { moduleName = "shape" }
defaultName(current) == IF current = <<>> THEN S("shape") ELSE current

\* main: the bytes peeked choose the decoder
Dispatch ==
    /\ pc = "main"
    /\ pc' = IF IsAscii(Peek(input, 6)) THEN "readAscii" ELSE "readBinary"
    /\ UNCHANGED <<env, offset, moduleName, text, numTriangles, tri, polygons,
                   points, faces, output, arg, res>>

\* readAscii up to its loop: "solid", the name, the first token after it
ReadAsciiHead ==
    /\ pc = "readAscii"
    /\ LET rd == expect(input, [ok |-> TRUE, pos |-> offset, vals |-> <<>>], kwSolid)
           shapeName == Scan(input, rd.pos)
           next == Scan(input, shapeName.pos)
       IN IF ~rd.ok
          THEN /\ pc' = "fatal"
               /\ offset' = rd.pos
               /\ UNCHANGED <<moduleName, text>>
          ELSE /\ pc' = "readAsciiLoop"
               /\ moduleName' = solidName(moduleName, shapeName.tok)
               /\ text' = next.tok
               /\ offset' = next.pos
    /\ UNCHANGED <<env, numTriangles, tri, polygons, points, faces, output,
                   arg, res>>

\* one turn of the loop of readAscii: a facet, and the token after it
ReadAsciiFacet ==
    /\ pc = "readAsciiLoop"
    /\ text = kwFacet
    /\ \E f \in {readFacet(input, offset)} :
          IF ~f.ok
          THEN /\ pc' = "fatal"
               /\ offset' = f.pos
               /\ UNCHANGED <<text, polygons>>
          ELSE \E next \in {Scan(input, f.pos)} :
                  /\ pc' = "readAsciiLoop"
                  /\ polygons' = Append(polygons, f.poly)
                  /\ text' = next.tok
                  /\ offset' = next.pos
    /\ UNCHANGED <<env, moduleName, numTriangles, tri, points, faces, output,
                   arg, res>>

\* readAscii after its loop: "endsolid", and the name skipped
ReadAsciiEnd ==
    /\ pc = "readAsciiLoop"
    /\ text # kwFacet
    /\ IF text # kwEndsolid
       THEN /\ pc' = "fatal"
            /\ UNCHANGED <<offset, text>>
       ELSE LET skipped == Scan(input, offset)
            IN /\ pc' = "resolve"
               /\ text' = skipped.tok
               /\ offset' = skipped.pos
    /\ UNCHANGED <<env, moduleName, numTriangles, tri, polygons, points, faces,
                   output, arg, res>>

\* readBinary up to its loop: the header skipped, the count read
ReadBinaryHead ==
    /\ pc = "readBinary"
    /\ \E count \in {Read4(input, Discard(input, offset, 80))} :
          /\ numTriangles' = IF count.full THEN Uint32(count.b) ELSE 0
          /\ offset' = count.pos
    /\ tri' = 0
    /\ pc' = "readBinaryLoop"
    /\ UNCHANGED <<env, moduleName, text, polygons, points, faces, output,
                   arg, res>>

\* the polygon of one record of readBinary and the position after it
readRecord(data, at) ==
    LET Third(v1, v2, v3) ==
            [poly |-> [vertices |-> <<v1.p, v2.p, v3.p>>],
             pos |-> Discard(data, v3.pos, 2)]
        Second(v1, v2) == Third(v1, v2, readPointBinary(data, v2.pos))
        First(v1) == Second(v1, readPointBinary(data, v1.pos))
    IN First(readPointBinary(data, Discard(data, at, 3 * 4)))

\* one turn of the loop of readBinary: one record
ReadBinaryFacet ==
    /\ pc = "readBinaryLoop"
    /\ tri < numTriangles
    /\ \E rec \in {readRecord(input, offset)} :
          /\ polygons' = Append(polygons, rec.poly)
          /\ offset' = rec.pos
    /\ tri' = tri + 1
    /\ UNCHANGED <<env, moduleName, pc, text, numTriangles, points, faces,
                   output, arg, res>>

\* readBinary returns
ReadBinaryEnd ==
    /\ pc = "readBinaryLoop"
    /\ tri >= numTriangles
    /\ pc' = "resolve"
    /\ UNCHANGED <<env, offset, moduleName, text, numTriangles, tri, polygons,
                   points, faces, output, arg, res>>

\* main: the default module name
ResolveName ==
    /\ pc = "resolve"
    /\ moduleName' = defaultName(moduleName)
    /\ pc' = "postProcess"
    /\ UNCHANGED <<env, offset, text, numTriangles, tri, polygons, points, faces,
                   output, arg, res>>

PostProcess ==
    /\ pc = "postProcess"
    /\ polygons' = postProcess(polygons, centerFlag)
    /\ pc' = "writeOpenScad"
    /\ UNCHANGED <<env, offset, moduleName, text, numTriangles, tri, points, faces,
                   output, arg, res>>

\* writeOpenScad: the point and face lists
BuildLists ==
    /\ pc = "writeOpenScad"
    /\ \E lists \in {ListsLoop(polygons, [points |-> <<>>, faces |-> <<>>], 0)} :
          /\ points' = lists.points
          /\ faces' = lists.faces
    /\ pc' = "print"
    /\ UNCHANGED <<env, offset, moduleName, text, numTriangles, tri, polygons,
                   output, arg, res>>

\* writeOpenScad: the script printed and flushed
PrintScript ==
    /\ pc = "print"
    /\ output' = output \o Script(moduleName, points, faces)
    /\ pc' = "exit"
    /\ UNCHANGED <<env, offset, moduleName, text, numTriangles, tri, polygons,
                   points, faces, arg, res>>

Next ==
    \/ Dispatch
    \/ ReadAsciiHead
    \/ ReadAsciiFacet
    \/ ReadAsciiEnd
    \/ ReadBinaryHead
    \/ ReadBinaryFacet
    \/ ReadBinaryEnd
    \/ ResolveName
    \/ PostProcess
    \/ BuildLists
    \/ PrintScript

Spec == Init /\ [][Next]_vars

(***************************************************************************)
(* The functions of the converter applied on their own: ftos and           *)
(* combineStrings to an argument, postProcess to a mesh once and once      *)
(* more, writeOpenScad to a mesh and a module name.                        *)
(***************************************************************************)
Pt(x, y, z) == [x |-> x, y |-> y, z |-> z]
Facet(a, b, c) == [vertices |-> <<a, b, c>>]

\* -1, 2, 2.5, 0.5, 3, -3, 4, 5, 7, 10, 100, 0.1, 2^24 and 2^24 + 2
MinusOne == F32(1, 127, 0)
Two == F32(0, 128, 0)
TwoAndHalf == F32(0, 128, 2097152)
Half1 == F32(0, 126, 0)
Three == F32(0, 128, 4194304)
MinusThree == F32(1, 128, 4194304)
Four == F32(0, 129, 0)
Five == F32(0, 129, 2097152)
Seven == F32(0, 129, 6291456)
Ten == F32(0, 130, 2097152)
Hundred == F32(0, 133, 4718592)
Tenth == F32(0, 123, 5033165)
Big == F32(0, 151, 0)
BigNext == F32(0, 151, 1)

\* the floats handed to ftos: the zeros, the infinities, NaN, and for each
\* sign the exponents 2^-4 .. 2^11 with four fractions
FloatSamples ==
    {PosZero, NegZero, Inf(0), Inf(1), NaN}
      \cup {F32(s, e, m) : s \in {0, 1}, e \in 123..138,
                           m \in {0, 2097152, 4194304, 5033165}}

\* n items that all differ, and n items that are all alike
Numbered(n) == [k \in 1..n |-> Itoa(k)]
Alike(n) == [k \in 1..n |-> S("[0,0,0]")]

\* the arguments handed to combineStrings
CombineArgs ==
    {[strings |-> ss, count |-> c, separator |-> sepComma] :
        ss \in UNION {{Numbered(n), Alike(n)} : n \in 0..MaxItems},
        c \in 1..MaxCount}

\* the facets of the meshes handed to postProcess: small dyadic coordinates,
\* and a facet 2^24 away from the origin, where a float32 has no odd values
CenterFacets ==
    {Facet(Pt(PosZero, PosZero, PosZero), Pt(One, PosZero, PosZero),
           Pt(PosZero, One, PosZero)),
     Facet(Pt(NegZero, TwoAndHalf, Ten), Pt(MinusThree, Half1, Seven),
           Pt(Half1, Four, Hundred)),
     Facet(Pt(Big, One, PosZero), Pt(BigNext, Two, One), Pt(Big, Three, Two)),
     Facet(Pt(MinusOne, MinusOne, MinusOne), Pt(One, One, One),
           Pt(Three, MinusThree, Five))}

Meshes == SeqsUpTo(CenterFacets, MaxMesh)

\* the meshes handed to writeOpenScad: two facets in turn
WriteFacetA ==
    Facet(Pt(PosZero, PosZero, PosZero), Pt(One, PosZero, PosZero),
          Pt(PosZero, One, PosZero))

WriteFacetB ==
    Facet(Pt(NegZero, TwoAndHalf, Ten), Pt(MinusThree, Tenth, Seven),
          Pt(Half1, Four, Hundred))

WriteMeshes ==
    {[k \in 1..n |-> IF (k + first) % 2 = 0 THEN WriteFacetA ELSE WriteFacetB] :
        n \in 0..MaxWriteFacets, first \in {0, 1}}

\* what no call touches
Idle ==
    /\ input = <<>>
    /\ moduleNameFlag = <<>>
    /\ text = <<>>
    /\ offset = 0 /\ numTriangles = 0 /\ tri = 0
    /\ points = <<>> /\ faces = <<>> /\ output = <<>>
    /\ res = <<>>

InitCalls ==
    /\ Idle
    /\ \/ /\ pc = "ftos"
          /\ arg \in FloatSamples
          /\ polygons = <<>> /\ moduleName = <<>> /\ centerFlag = FALSE
       \/ /\ pc = "combineStrings"
          /\ arg \in CombineArgs
          /\ polygons = <<>> /\ moduleName = <<>> /\ centerFlag = FALSE
       \/ /\ pc = "center"
          /\ arg \in Meshes
          /\ centerFlag \in BOOLEAN
          /\ polygons = <<>> /\ moduleName = <<>>
       \/ /\ pc = "writeOpenScad"
          /\ polygons \in WriteMeshes
          /\ moduleName \in {S("shape"), S("part")}
          /\ arg = <<>> /\ centerFlag = FALSE

\* ftos(arg)
CallFtos ==
    /\ pc = "ftos"
    /\ res' = ftos(arg)
    /\ pc' = "ftosReturn"
    /\ UNCHANGED <<env, offset, moduleName, text, numTriangles, tri, polygons,
                   points, faces, output, arg>>

\* combineStrings(arg.strings, arg.count, arg.separator)
CallCombine ==
    /\ pc = "combineStrings"
    /\ res' = combineStrings(arg.strings, arg.count, arg.separator)
    /\ pc' = "combineReturn"
    /\ UNCHANGED <<env, offset, moduleName, text, numTriangles, tri, polygons,
                   points, faces, output, arg>>

\* postProcess applied to the mesh arg
CenterOnce ==
    /\ pc = "center"
    /\ res' = postProcess(arg, centerFlag)
    /\ pc' = "once"
    /\ UNCHANGED <<env, offset, moduleName, text, numTriangles, tri, polygons,
                   points, faces, output, arg>>

\* postProcess applied to what it returned
CenterTwice ==
    /\ pc = "once"
    /\ polygons' = postProcess(res, centerFlag)
    /\ pc' = "twice"
    /\ UNCHANGED <<env, offset, moduleName, text, numTriangles, tri, points,
                   faces, output, arg, res>>

NextCalls ==
    \/ CallFtos \/ CallCombine \/ CenterOnce \/ CenterTwice
    \/ BuildLists \/ PrintScript

SpecCalls == InitCalls /\ [][NextCalls]_vars

(***************************************************************************)
(* Properties of a run of the converter.                                   *)
(***************************************************************************)

HasPrefix(s, prefix) ==
    Len(s) >= Len(prefix) /\ SubSeq(s, 1, Len(prefix)) = prefix

\* the first six bytes of the input are s, o, l, i, d and a space
SolidPrefix ==
    Len(input) >= 6 /\ SubSeq(input, 1, 6) = <<115, 111, 108, 105, 100, 32>>

\* the whitespace separated tokens of a stream, in order
RECURSIVE WordsFrom(_, _)
WordsFrom(data, at) ==
    LET sc == Scan(data, at)
    IN IF sc.tok = <<>> THEN <<>> ELSE <<sc.tok>> \o WordsFrom(data, sc.pos)

Words(data) == WordsFrom(data, 0)

\* C9: the input goes to the ASCII decoder exactly when its first six bytes
\* are "solid " and to the binary decoder otherwise, a short input included,
\* and the decoder chosen starts at the first byte of the input.
C9_Dispatch ==
    [][pc = "main" =>
          /\ pc' = IF SolidPrefix THEN "readAscii" ELSE "readBinary"
          /\ offset' = 0]_vars

\* a stream that begins with "solid" and no space is given to the binary decoder
C9_Witness ==
    /\ pc = "readBinary"
    /\ offset = 0
    /\ HasPrefix(input, S("solid"))

\* the name the script has to carry
ExpectedName ==
    IF moduleNameFlag # <<>> THEN moduleNameFlag
    ELSE IF SolidPrefix THEN Scan(input, 6).tok
    ELSE S("shape")

\* C1: the script of a completed run declares and invokes the module under
\* one name: the -module value when it is not empty, else the token after
\* "solid" of an ASCII input, else "shape" for a binary input.
C1_ModuleName ==
    pc = "exit" =>
        /\ HasPrefix(output, S("module ") \o ExpectedName \o S("() {") \o <<NL>>)
        /\ HasSuffix(output, <<NL>> \o ExpectedName \o S("();") \o <<NL>>)

\* a completed run with a -module value over an ASCII input that declares
\* another name
C1_Witness ==
    /\ pc = "exit"
    /\ moduleNameFlag = S("part")
    /\ SolidPrefix
    /\ Scan(input, 6).tok = S("cube")
    /\ output # <<>>

\* a token that strconv.ParseFloat takes
IsFloat(tok) == ParseFloat(tok).ok

\* the keywords of a facet, by their place among its 21 tokens
FacetKeywords ==
    [k \in {0, 1, 5, 6, 7, 11, 15, 19, 20} |->
        CASE k = 0 -> kwFacet
          [] k = 1 -> kwNormal
          [] k = 5 -> kwOuter
          [] k = 6 -> kwLoop
          [] k \in {7, 11, 15} -> kwVertex
          [] k = 19 -> kwEndloop
          [] k = 20 -> kwEndfacet]

\* the 21 tokens from W[at] on are a facet: keywords and floats in place
WellFormedFacet(W, at) ==
    /\ Len(W) >= at + 20
    /\ \A k \in 0..20 :
          IF k \in DOMAIN FacetKeywords THEN W[at + k] = FacetKeywords[k]
          ELSE IsFloat(W[at + k])

\* the tokens are "solid", a name, some facets and "endsolid"
WellFormed(W) ==
    /\ Len(W) >= 1
    /\ W[1] = kwSolid
    /\ \E n \in 0..(Len(W) \div 21) :
          /\ Len(W) >= 3 + 21 * n
          /\ W[3 + 21 * n] = kwEndsolid
          /\ \A k \in 0..(n - 1) : WellFormedFacet(W, 3 + 21 * k)

\* the input is given to the ASCII decoder and is not what it takes
Malformed == SolidPrefix /\ \E W \in {Words(input)} : ~WellFormed(W)

\* C2: an input given to the ASCII decoder that has a wrong token at a
\* keyword place, or a token that is no float at a numeric place, or that
\* ends inside a facet or before "endsolid", never gets past the decoder:
\* the run is in the decoder or ended by log.Fatalf, the serializer has
\* built no list and nothing is written.
C2_AsciiAbort ==
    Malformed =>
        /\ pc \in {"main", "readAscii", "readAsciiLoop", "fatal"}
        /\ points = <<>> /\ faces = <<>>
        /\ output = <<>>

\* a run that is aborted inside a facet
C2_Witness ==
    /\ pc = "fatal"
    /\ SolidPrefix
    /\ text = kwFacet
    /\ Malformed
    /\ output = <<>>

\* the lists are as the decoder returned them
Decoded == pc \in {"resolve", "postProcess"}

\* the point that three tokens spell
TokenPoint(W, at) ==
    [x |-> ParseFloat(W[at]).val, y |-> ParseFloat(W[at + 1]).val,
     z |-> ParseFloat(W[at + 2]).val]

\* the N facets are the first N blocks of 21 tokens, and "endsolid" follows
AsciiFacetsOf(W, polys) ==
    /\ \A k \in 0..(Len(polys) - 1) :
          /\ W[3 + 21 * k] = kwFacet
          /\ polys[k + 1].vertices =
                <<TokenPoint(W, 3 + 21 * k + 8), TokenPoint(W, 3 + 21 * k + 12),
                  TokenPoint(W, 3 + 21 * k + 16)>>
    /\ W[3 + 21 * Len(polys)] = kwEndsolid

\* the 12 bytes that hold a point
PointBytes(p) == PutFloat32(p.x) \o PutFloat32(p.y) \o PutFloat32(p.z)

\* the file holds the records that its count declares
Complete(data, n) ==
    /\ Len(data) >= 84 + 50 * n
    /\ SubSeq(data, 81, 84) = PutUint32(n)

\* vertex j of facet k is the 12 bytes at 84 + 50k + 12 + 12j
BinaryFacetsOf(data, polys) ==
    \A k \in 0..(Len(polys) - 1) :
        /\ Len(polys[k + 1].vertices) = 3
        /\ \A j \in 0..2 :
              PointBytes(polys[k + 1].vertices[j + 1]) =
                  SubSeq(data, 84 + 50 * k + 12 + 12 * j + 1,
                         84 + 50 * k + 12 + 12 * j + 12)

\* C3: the decoder returns the facets of the file, as many as the file
\* holds, in file order, each with its three vertices in file order: for
\* ASCII the blocks between "solid" and "endsolid", for binary the records
\* that the count after the 80 byte header declares.
C3_Facets ==
    Decoded =>
        IF SolidPrefix THEN \E W \in {Words(input)} : AsciiFacetsOf(W, polygons)
        ELSE \A n \in 0..(MaxFacets + 1) :
                Complete(input, n) =>
                    Len(polygons) = n /\ BinaryFacetsOf(input, polygons)

\* two facets that differ, decoded from an ASCII file
C3_Witness ==
    /\ Decoded
    /\ SolidPrefix
    /\ Len(polygons) = 2
    /\ polygons[1] # polygons[2]

\* the records that a binary file declares are not all there
Truncated ==
    /\ ~SolidPrefix
    /\ \/ Len(input) < 84
       \/ Len(input) < 84 + 50 * Uint32(SubSeq(input, 81, 84))

\* C4: a binary input that ends before its header, its count or all the
\* records that it declares does not lead to a completed run, and nothing
\* is written from the data read so far.
C4_TruncatedAborts ==
    Truncated => pc # "exit" /\ output = <<>>

(***************************************************************************)
(* Properties of the functions applied on their own.                       *)
(***************************************************************************)
Abs(n) == IF n < 0 THEN 0 - n ELSE n

\* a finite float32 f as a whole number of sixteenths; f is a multiple of
\* 1/16 and less than 2^27 in magnitude
Sixteenths(f) ==
    IF IsZero(f) THEN 0
    ELSE (IF f.s = 1 THEN 0 - 1 ELSE 1)
           * (IF Exp(f) >= 146 THEN Sig(f) * Pow2(Exp(f) - 146)
              ELSE IF Sig(f) % Pow2(146 - Exp(f)) = 0
              THEN Sig(f) \div Pow2(146 - Exp(f))
              ELSE OutsideModel)

\* lo2 + hi2 is zero to within 2^-21 of the larger of |lo| and |hi|
NearlyCentred(lo2, hi2, lo, hi) ==
    \E m \in {IF Abs(Sixteenths(lo)) > Abs(Sixteenths(hi))
              THEN Abs(Sixteenths(lo)) ELSE Abs(Sixteenths(hi))} :
        Abs(Sixteenths(lo2) + Sixteenths(hi2)) <= m \div 2097152

\* lo + hi is zero
ExactlyCentred(lo, hi) == Sixteenths(lo) + Sixteenths(hi) = 0

\* every vertex of after is the vertex of before translated by delta
Translated(before, after, delta) ==
    /\ Len(after) = Len(before)
    /\ \A k \in 1..Len(before) :
          after[k].vertices =
              [j \in 1..Len(before[k].vertices) |-> add(before[k].vertices[j], delta)]

\* C5, as the code has it: for a mesh that is not empty and has finite
\* coordinates, postProcess with centering enabled adds to every vertex, in
\* float32, the delta computed from the bounding box before; after it minZ
\* is zero, and minX + maxX and minY + maxY are zero to within 2^-21 of the
\* largest magnitude the box had on that axis before.
C5_CenteredWithinRounding ==
    (pc \in {"once", "twice"} /\ centerFlag /\ arg # <<>>) =>
        \E b \in {boundingBox(arg)} : \E b2 \in {boundingBox(res)} :
            /\ Translated(arg, res, Delta(b))
            /\ IsZero(b2.min.z)
            /\ NearlyCentred(b2.min.x, b2.max.x, b.min.x, b.max.x)
            /\ NearlyCentred(b2.min.y, b2.max.y, b.min.y, b.max.y)

\* a mesh that centering leaves off centre on the x axis
C5_Witness ==
    /\ pc = "once"
    /\ centerFlag
    /\ arg # <<>>
    /\ \E b2 \in {boundingBox(res)} :
          /\ IsZero(b2.min.z)
          /\ ~ExactlyCentred(b2.min.x, b2.max.x)

\* C5, as the claim has it: after postProcess with centering enabled the
\* bounding box of a mesh that is not empty has minX + maxX = 0,
\* minY + maxY = 0 and minZ = 0.
C5_CenteredExactly ==
    (pc \in {"once", "twice"} /\ centerFlag /\ arg # <<>>) =>
        \E b2 \in {boundingBox(res)} :
            /\ IsZero(b2.min.z)
            /\ ExactlyCentred(b2.min.x, b2.max.x)
            /\ ExactlyCentred(b2.min.y, b2.max.y)

\* the bounding box has min = -max on the x and the y axis
BoxCentred(b) ==
    /\ b.min.x = Neg(b.max.x) \/ (IsZero(b.min.x) /\ IsZero(b.max.x))
    /\ b.min.y = Neg(b.max.y) \/ (IsZero(b.min.y) /\ IsZero(b.max.y))

\* the z coordinates of the vertices of a facet list
Heights(polys) == [k \in 1..Len(AllVertices(polys)) |-> AllVertices(polys)[k].z]

\* C6, as the code has it: with centering disabled postProcess returns the
\* facet list unchanged; with centering enabled a second application
\* changes no z coordinate, and changes no vertex when the first one left
\* the bounding box exactly centred on the x and the y axis.
C6_SecondPass ==
    /\ (pc \in {"once", "twice"} /\ ~centerFlag) => res = arg
    /\ (pc = "twice" /\ ~centerFlag) => polygons = res
    /\ (pc = "twice" /\ centerFlag) =>
          /\ Heights(polygons) = Heights(res)
          /\ BoxCentred(boundingBox(res)) => polygons = res

\* a mesh that the first application moves and the second does not
C6_Witness ==
    /\ pc = "twice"
    /\ centerFlag
    /\ res # arg
    /\ BoxCentred(boundingBox(res))
    /\ polygons = res

\* C6, as the claim has it: postProcess applied twice gives the facet list
\* that postProcess applied once gives, and with centering disabled it
\* changes nothing.
C6_Idempotent ==
    /\ (pc \in {"once", "twice"} /\ ~centerFlag) => res = arg
    /\ pc = "twice" => polygons = res

\* how many bytes of s are b
CountByte(s, b) == Cardinality({k \in 1..Len(s) : s[k] = b})

\* the face entry of facet k, counted from 0
FaceEntry(k) ==
    S("[") \o Itoa(3 * k) \o S(",") \o Itoa(3 * k + 1) \o S(",")
      \o Itoa(3 * k + 2) \o S("]")

\* C7: for a mesh of N facets the serializer builds N face entries, the
\* k-th being [3k,3k+1,3k+2], and 3N points, the j-th being vertex j mod 3
\* of facet j div 3, none dropped and none moved; and the script it writes
\* holds exactly these 4N entries.
C7_FaceIndices ==
    (pc \in {"print", "exit"} /\ arg = <<>>) =>
        /\ Len(faces) = Len(polygons)
        /\ \A k \in 0..(Len(polygons) - 1) : faces[k + 1] = FaceEntry(k)
        /\ Len(points) = 3 * Len(polygons)
        /\ \A j \in 0..(3 * Len(polygons) - 1) :
              points[j + 1] =
                  pointToOpenScad(polygons[(j \div 3) + 1].vertices[(j % 3) + 1])
        /\ pc = "exit" => CountByte(output, 91) = 4 * Len(polygons) + 2

\* a written script whose last face is [18,19,20]
C7_Witness ==
    /\ pc = "exit"
    /\ Len(polygons) = 7
    /\ faces[7] = S("[18,19,20]")
    /\ CountByte(output, 91) = 30

\* C8: ftos never returns "-0", and returns "0" for negative zero.
C8_NegativeZero ==
    pc = "ftosReturn" =>
        /\ res # S("-0")
        /\ arg = NegZero => res = S("0")

\* the least of two numbers
Least(a, b) == IF a < b THEN a ELSE b

\* the lines the claim describes for n >= 1 items in groups of c: line l
\* holds the items (l-1)c+1 .. min(lc, n) with sep between them, and sep
\* after them unless it is the last line
GroupedLines(items, c, sep) ==
    [l \in 1..((Len(items) + c - 1) \div c) |->
        Join(SubSeq(items, (l - 1) * c + 1, Least(l * c, Len(items))), sep)
          \o (IF l * c < Len(items) THEN sep ELSE <<>>)]

\* the lines of a block of the script
Block(ls) == Flatten([l \in 1..Len(ls) |-> S("      ") \o ls[l] \o <<NL>>])

\* C10: combineStrings returns one empty line for no items and otherwise
\* ceil(n/c) lines that hold the items in order, c to a line but for the
\* last, ", " between them and at the end of every line but the last; and
\* the script holds the points so grouped by 3 and the faces by 6, an empty
\* line each for an empty facet list.
C10_LineWrapping ==
    /\ pc = "combineReturn" =>
          res = IF arg.strings = <<>> THEN << <<>> >>
                ELSE GroupedLines(arg.strings, arg.count, arg.separator)
    /\ (pc = "exit" /\ arg = <<>>) =>
          output =
              S("module ") \o moduleName \o S("() {") \o <<NL>>
                \o S("  polyhedron(") \o <<NL>>
                \o S("    points=[") \o <<NL>>
                \o Block(IF points = <<>> THEN << <<>> >>
                         ELSE GroupedLines(points, 3, S(", ")))
                \o S("    ],") \o <<NL>>
                \o S("    faces=[") \o <<NL>>
                \o Block(IF faces = <<>> THEN << <<>> >>
                         ELSE GroupedLines(faces, 6, S(", ")))
                \o S("    ]") \o <<NL>>
                \o S("  );") \o <<NL>>
                \o S("}") \o <<NL>>
                \o moduleName \o S("();") \o <<NL>>

\* 13 items in groups of 6: two full lines and a last line of one item
C10_Witness ==
    /\ pc = "combineReturn"
    /\ Len(arg.strings) = 13
    /\ arg.count = 6
    /\ Len(res) = 3
    /\ res[3] = S("13")

====
